---- MODULE Spec2Model ----
(***************************************************************************)
(* Model of src/components/sales-order-app.tsx: the SalesOrderApp          *)
(* component's order list, its load/persist effects, its handlers and the  *)
(* derived (filtered, sorted) view.                                        *)
(*                                                                         *)
(* Text values (customer, notes, date, the draft's amount, the search      *)
(* term) are sequences of one-character strings.  The stored snapshot is   *)
(* a sequence of JSON tokens.                                              *)
(***************************************************************************)
EXTENDS Integers, Sequences, FiniteSets, TLC

VARIABLES
    orders,         \* useState<Order[]>([])                       (line 43)
    mounted,        \* useState(false)                             (line 44)
    storage,        \* localStorage entry under the key 'orders'
    queued,         \* state updates queued by the load effect, <<>> when none
    pc,             \* what React runs next: an effect, a render, or "idle"
    trigger,        \* the event whose effects are still being flushed
    newOrder,       \* useState<NewOrder>(initialNewOrder)         (line 83)
    editingOrder,   \* useState<Order | null>(null): <<>> or <<order>>
    showModal,      \* useState(false)                             (line 68)
    alert,          \* useState<{type, message} | null>(null)      (line 73)
    timers,         \* number of pending setTimeout(() => setAlert(null), 3000)
    searchTerm,     \* useState('')                                (line 66)
    statusFilter,   \* useState('all')                             (line 70)
    sortBy,         \* useState('date')                            (line 71)
    sortDirection   \* useState('desc')                            (line 72)

vars == <<orders, mounted, storage, queued, pc, trigger, newOrder, editingOrder,
          showModal, alert, timers, searchTerm, statusFilter, sortBy, sortDirection>>

storeVars == <<orders, mounted, storage, queued, pc, trigger, newOrder,
               editingOrder, showModal, alert, timers>>

viewVars == <<searchTerm, statusFilter, sortBy, sortDirection>>

-----------------------------------------------------------------------------
(* Bounds *)

\* Ids are assigned as max + 1 and grow without limit; an add is only taken
\* while the new id stays within MaxId.
MaxId == 3

\* Number of alert timeouts that may be pending at once.
MaxTimers == 2

-----------------------------------------------------------------------------
(* Text helpers *)

Digits == <<"0", "1", "2", "3", "4", "5", "6", "7", "8", "9">>

UpperCase == <<"A", "B", "C", "D", "E", "F", "G", "H", "I", "J", "K", "L", "M",
               "N", "O", "P", "Q", "R", "S", "T", "U", "V", "W", "X", "Y", "Z">>

LowerCase == <<"a", "b", "c", "d", "e", "f", "g", "h", "i", "j", "k", "l", "m",
               "n", "o", "p", "q", "r", "s", "t", "u", "v", "w", "x", "y", "z">>

\* String.prototype.toLowerCase, character by character.
LowerChar(c) ==
    IF \E i \in 1..26 : UpperCase[i] = c
    THEN LowerCase[CHOOSE i \in 1..26 : UpperCase[i] = c]
    ELSE c

toLowerCase(s) == [i \in 1..Len(s) |-> LowerChar(s[i])]

\* String.prototype.includes: t occurs in s as a contiguous substring.
includes(s, t) ==
    \E i \in 0..(Len(s) - Len(t)) : SubSeq(s, i + 1, i + Len(t)) = t

\* Number.prototype.toString for a non-negative integer: its decimal digits.
RECURSIVE toString(_)
toString(n) ==
    IF n < 10 THEN <<Digits[n + 1]>>
    ELSE Append(toString(n \div 10), Digits[(n % 10) + 1])

DigitValue(c) ==
    CASE c = "0" -> 0 [] c = "1" -> 1 [] c = "2" -> 2 [] c = "3" -> 3
      [] c = "4" -> 4 [] c = "5" -> 5 [] c = "6" -> 6 [] c = "7" -> 7
      [] c = "8" -> 8 [] c = "9" -> 9

\* Number(text) for a text of decimal digits (Number('') is 0).
RECURSIVE Number(_)
Number(s) ==
    IF s = <<>> THEN 0
    ELSE Number(SubSeq(s, 1, Len(s) - 1)) * 10 + DigitValue(s[Len(s)])

-----------------------------------------------------------------------------
(* Dates: 'YYYY-MM-DD' texts *)

Today == <<"2", "0", "2", "6", "-", "1", "1", "-", "0", "5">>
Earlier == <<"2", "0", "2", "6", "-", "0", "2", "-", "2", "8">>

\* new Date(text) is valid for a 'YYYY-MM-DD' text; '' gives an Invalid Date.
ValidDate(d) == Len(d) = 10

\* Days since 1970-01-01 of a civil date.
DaysFromCivil(y, m, d) ==
    LET yy  == IF m <= 2 THEN y - 1 ELSE y
        era == yy \div 400
        yoe == yy - era * 400
        mp  == IF m > 2 THEN m - 3 ELSE m + 9
        doy == (153 * mp + 2) \div 5 + d - 1
        doe == yoe * 365 + yoe \div 4 - yoe \div 100 + doy
    IN  era * 146097 + doe - 719468

\* new Date(text).getTime() for a valid date, in whole days since the epoch:
\* a date-only text is midnight UTC, so the milliseconds are this number
\* times 86 400 000 (which only scales the comparator of the sort).
getTime(d) ==
    DaysFromCivil(Number(SubSeq(d, 1, 4)), Number(SubSeq(d, 6, 7)),
                  Number(SubSeq(d, 9, 10)))

-----------------------------------------------------------------------------
(* Orders *)

AcmeCorp == <<"A", "c", "m", "e", " ", "C", "o", "r", "p">>
TechStart == <<"T", "e", "c", "h", "S", "t", "a", "r", "t">>
Globex == <<"G", "l", "o", "b", "e", "x">>

INITIAL_ORDERS ==
    << [id |-> 1, customer |-> AcmeCorp, amount |-> 1500, status |-> "pending",
        date |-> Today,
        notes |-> <<"Q", "u", "a", "r", "t", "e", "r", "l", "y">>],
       [id |-> 2, customer |-> TechStart, amount |-> 2300, status |-> "completed",
        date |-> Today,
        notes |-> <<"H", "a", "r", "d", "w", "a", "r", "e">>] >>

initialNewOrder ==
    [customer |-> <<>>, amount |-> <<>>, status |-> "pending", date |-> Today,
     notes |-> <<>>]

NoAlert == [type |-> "none", message |-> "none"]

RECURSIVE Max(_)
\* Math.max(...ids, 0)
Max(ids) ==
    IF ids = <<>> THEN 0
    ELSE LET m == Max(Tail(ids)) IN IF Head(ids) > m THEN Head(ids) ELSE m

Ids(list) == [i \in 1..Len(list) |-> list[i].id]

-----------------------------------------------------------------------------
(* JSON.stringify / JSON.parse of the order list, as a token sequence *)

Punct(c) == [kind |-> "punct", text |-> <<c>>]
NumTok(n) == [kind |-> "num", text |-> toString(n)]
StrTok(s) == [kind |-> "str", text |-> s]

\* One order: { id, customer, amount, status, date, notes } in field order.
StringifyOrder(o) ==
    << Punct("{"), NumTok(o.id), StrTok(o.customer), NumTok(o.amount),
       StrTok(<<o.status>>), StrTok(o.date), StrTok(o.notes), Punct("}") >>

RECURSIVE StringifyItems(_)
StringifyItems(list) ==
    IF list = <<>> THEN <<>>
    ELSE IF Len(list) = 1 THEN StringifyOrder(list[1])
    ELSE StringifyOrder(Head(list)) \o <<Punct(",")>> \o StringifyItems(Tail(list))

\* JSON.stringify(orders)
stringify(list) == <<Punct("[")>> \o StringifyItems(list) \o <<Punct("]")>>

ObjLen == 8

IsObject(t) ==
    /\ Len(t) = ObjLen
    /\ t[1] = Punct("{") /\ t[ObjLen] = Punct("}")
    /\ t[2].kind = "num" /\ t[3].kind = "str" /\ t[4].kind = "num"
    /\ t[5].kind = "str" /\ Len(t[5].text) = 1
    /\ t[6].kind = "str" /\ t[7].kind = "str"

ParseOrder(t) ==
    [id |-> Number(t[2].text), customer |-> t[3].text, amount |-> Number(t[4].text),
     status |-> t[5].text[1], date |-> t[6].text, notes |-> t[7].text]

\* The tokens between the brackets: objects separated by commas.
RECURSIVE ItemsOk(_)
ItemsOk(t) ==
    /\ Len(t) >= ObjLen
    /\ IsObject(SubSeq(t, 1, ObjLen))
    /\ \/ Len(t) = ObjLen
       \/ /\ Len(t) > ObjLen + 1
          /\ t[ObjLen + 1] = Punct(",")
          /\ ItemsOk(SubSeq(t, ObjLen + 2, Len(t)))

RECURSIVE ParseItems(_)
ParseItems(t) ==
    IF Len(t) <= ObjLen THEN <<ParseOrder(t)>>
    ELSE <<ParseOrder(SubSeq(t, 1, ObjLen))>> \o ParseItems(SubSeq(t, ObjLen + 2, Len(t)))

\* JSON.parse(text) does not throw.
Parseable(t) ==
    /\ Len(t) >= 2
    /\ t[1] = Punct("[") /\ t[Len(t)] = Punct("]")
    /\ \/ Len(t) = 2
       \/ ItemsOk(SubSeq(t, 2, Len(t) - 1))

\* JSON.parse(text), for a parseable text.
parse(t) == IF Len(t) = 2 THEN <<>> ELSE ParseItems(SubSeq(t, 2, Len(t) - 1))

\* localStorage.getItem('orders'): null when the key is absent.
Absent == [present |-> FALSE, text |-> <<>>]
Stored(t) == [present |-> TRUE, text |-> t]

\* Snapshots an earlier session of the program can have left behind.
StoredLists ==
    { <<>>,
      <<INITIAL_ORDERS[2]>>,
      <<[INITIAL_ORDERS[1] EXCEPT !.status = "completed"], INITIAL_ORDERS[2]>>,
      <<INITIAL_ORDERS[2],
        [id |-> 3, customer |-> Globex, amount |-> 500, status |-> "pending",
         date |-> Today, notes |-> <<>>]>> }

\* Stored texts JSON.parse rejects: a truncated snapshot, and foreign text.
CorruptTexts ==
    { SubSeq(stringify(INITIAL_ORDERS), 1, Len(stringify(INITIAL_ORDERS)) - 1),
      <<StrTok(<<"x">>)>> }

InitialStorage ==
    {Absent, Stored(<<>>)}
        \cup {Stored(t) : t \in CorruptTexts}
        \cup {Stored(stringify(l)) : l \in StoredLists}

\* The load effect, had it taken a stored empty list for no list at all.
LoadedOrdersDefaultsWhenEmpty(saved) ==
    IF saved.present /\ saved.text # <<>> /\ Parseable(saved.text)
       /\ parse(saved.text) # <<>>
    THEN parse(saved.text)
    ELSE INITIAL_ORDERS

\* Lines 47-56: the list the load effect hands to setOrders.
LoadedOrders(saved) ==
    IF saved.present /\ saved.text # <<>>
    THEN IF Parseable(saved.text) THEN parse(saved.text) ELSE INITIAL_ORDERS
    ELSE INITIAL_ORDERS

-----------------------------------------------------------------------------
(* The derived view: lines 148-160 *)

\* Lines 149-150
MatchesSearch(order, term) ==
    \/ includes(toLowerCase(order.customer), toLowerCase(term))
    \/ includes(toString(order.amount), term)

\* Line 151
MatchesStatus(order, filter) == filter = "all" \/ order.status = filter

\* The predicate with || between its two halves.
KeepAnyMatch(order, term, filter) ==
    MatchesSearch(order, term) \/ MatchesStatus(order, filter)

\* Lines 148-152
Keep(order, term, filter) ==
    MatchesSearch(order, term) /\ MatchesStatus(order, filter)

\* Array.prototype.filter with the predicate of lines 148-152
Filter(list, term, filter) ==
    LET F[i \in 0..Len(list)] ==
            IF i = 0 THEN <<>>
            ELSE IF Keep(list[i], term, filter) THEN Append(F[i - 1], list[i])
                 ELSE F[i - 1]
    IN  F[Len(list)]

\* The comparator without its modifier.
CompareAscending(a, b, key, direction) ==
    IF key = "date"
    THEN IF ValidDate(a.date) /\ ValidDate(b.date)
         THEN getTime(a.date) - getTime(b.date)
         ELSE 0
    ELSE a.amount - b.amount

\* Lines 155-159: the comparator; a NaN result (an invalid date) counts as 0.
Compare(a, b, key, direction) ==
    LET modifier == IF direction = "asc" THEN 1 ELSE -1
    IN  IF key = "date"
        THEN IF ValidDate(a.date) /\ ValidDate(b.date)
             THEN modifier * (getTime(a.date) - getTime(b.date))
             ELSE 0
        ELSE modifier * (a.amount - b.amount)

\* One step of a stable insertion: x goes after every element not greater.
RECURSIVE Insert(_, _, _, _)
Insert(sorted, x, key, direction) ==
    IF sorted = <<>> THEN <<x>>
    ELSE IF Compare(sorted[Len(sorted)], x, key, direction) <= 0
         THEN Append(sorted, x)
         ELSE Append(Insert(SubSeq(sorted, 1, Len(sorted) - 1), x, key, direction),
                     sorted[Len(sorted)])

\* Line 154: [...list].sort(comparator); Array.prototype.sort is stable.
Sort(list, key, direction) ==
    LET F[i \in 0..Len(list)] ==
            IF i = 0 THEN <<>> ELSE Insert(F[i - 1], list[i], key, direction)
    IN  F[Len(list)]

\* Lines 148-160: what the component renders.
View(list, term, filter, key, direction) ==
    Sort(Filter(list, term, filter), key, direction)

filteredOrders == View(orders, searchTerm, statusFilter, sortBy, sortDirection)

-----------------------------------------------------------------------------
(* Mount: first render, load effect, persist effect, re-render *)

ViewDefaults ==
    /\ searchTerm = <<>>
    /\ statusFilter = "all"
    /\ sortBy = "date"
    /\ sortDirection = "desc"

\* The state after the first render: both effects are still to run.
Init ==
    /\ orders = <<>>
    /\ mounted = FALSE
    /\ storage \in InitialStorage
    /\ queued = <<>>
    /\ pc = "loadEffect"
    /\ trigger = "mount"
    /\ newOrder = initialNewOrder
    /\ editingOrder = <<>>
    /\ showModal = FALSE
    /\ alert = NoAlert
    /\ timers = 0
    /\ ViewDefaults

\* Lines 46-58.  setOrders and setMounted are queued: the effects of the first
\* render still see orders = [] and mounted = false.
LoadEffect ==
    /\ pc = "loadEffect"
    /\ queued' = <<[orders |-> LoadedOrders(storage), mounted |-> TRUE]>>
    /\ pc' = "persistEffect"
    /\ UNCHANGED <<orders, mounted, storage, trigger, newOrder, editingOrder,
                   showModal, alert, timers>>
    /\ UNCHANGED viewVars

\* The persist effect without its guard.
ShouldPersistAlways == TRUE

\* Line 61: the persist effect writes only once mounted.
ShouldPersist == mounted

\* Lines 60-64.  Runs after every render in which orders or mounted changed.
PersistEffect ==
    /\ pc = "persistEffect"
    /\ storage' = IF ShouldPersist THEN Stored(stringify(orders)) ELSE storage
    /\ pc' = IF queued # <<>> THEN "render" ELSE "idle"
    /\ trigger' = IF queued # <<>> THEN trigger ELSE "none"
    /\ UNCHANGED <<orders, mounted, queued, newOrder, editingOrder, showModal,
                   alert, timers>>
    /\ UNCHANGED viewVars

\* The effect with orders missing from its dependencies.
AfterSetOrdersStale == "idle"

\* Line 64: the effect's dependencies are [orders, mounted]; setOrders with a
\* new array schedules the persist effect after the re-render.
AfterSetOrders == "persistEffect"

\* The re-render that applies the updates the load effect queued.
Render ==
    /\ pc = "render"
    /\ orders' = queued[1].orders
    /\ mounted' = queued[1].mounted
    /\ queued' = <<>>
    /\ pc' = AfterSetOrders
    /\ UNCHANGED <<storage, trigger, newOrder, editingOrder, showModal, alert, timers>>
    /\ UNCHANGED viewVars

-----------------------------------------------------------------------------
(* Handlers.  Each runs to completion, with its re-render, while pc = "idle". *)

\* What the user can type into the form: nothing, or a customer and an amount
\* that orders of the default list already have.
CustomerInputs == {<<>>, TechStart}
AmountInputs == {<<>>, <<"1", "5", "0", "0">>}
StatusInputs == {"pending", "completed"}

\* The id as orders.length + 1.
NewIdByLength(list) == Len(list) + 1

\* Line 88: Math.max(...orders.map(o => o.id), 0) + 1
NewId(list) == Max(Ids(list)) + 1

\* The guard without its check of the amount.
DraftValidCustomerOnly == newOrder.customer # <<>>

\* Line 86
DraftValid == newOrder.customer # <<>> /\ newOrder.amount # <<>>

\* Lines 87-94
OrderToSave ==
    [id |-> IF editingOrder # <<>> THEN editingOrder[1].id ELSE NewId(orders),
     customer |-> newOrder.customer,
     amount |-> Number(newOrder.amount),
     status |-> newOrder.status,
     date |-> newOrder.date,
     notes |-> newOrder.notes]

\* Lines 97-99
ReplaceById(list, id, o) ==
    [i \in 1..Len(list) |-> IF list[i].id = id THEN o ELSE list[i]]

\* Lines 85-117 (the form's Add Order / Update Order button, line 370)
handleAddOrder ==
    /\ pc = "idle"
    /\ showModal
    /\ timers < MaxTimers
    /\ (DraftValid /\ editingOrder = <<>>) => NewId(orders) <= MaxId
    /\ IF DraftValid
       THEN /\ IF editingOrder # <<>>
               THEN /\ orders' = ReplaceById(orders, editingOrder[1].id, OrderToSave)
                    /\ alert' = [type |-> "success",
                                 message |-> "Order updated successfully!"]
                    /\ trigger' = "update"
               ELSE /\ orders' = Append(orders, OrderToSave)
                    /\ alert' = [type |-> "success",
                                 message |-> "New order added successfully!"]
                    /\ trigger' = "add"
            /\ newOrder' = initialNewOrder
            /\ editingOrder' = <<>>
            /\ showModal' = FALSE
            /\ pc' = AfterSetOrders
       ELSE /\ alert' = [type |-> "error",
                         message |-> "Please fill in all required fields!"]
            /\ UNCHANGED <<orders, newOrder, editingOrder, showModal, pc, trigger>>
    /\ timers' = timers + 1
    /\ UNCHANGED <<mounted, storage, queued>>
    /\ UNCHANGED viewVars

\* Lines 119-130 (an order card's edit button, line 282).  The buttons of the
\* list lie under the modal's full-screen overlay (line 314) while it is open.
handleEditOrder(order) ==
    /\ pc = "idle"
    /\ ~showModal
    /\ editingOrder' = <<order>>
    /\ newOrder' = [customer |-> order.customer,
                    amount |-> toString(order.amount),
                    status |-> order.status,
                    date |-> order.date,
                    notes |-> order.notes]
    /\ showModal' = TRUE
    /\ UNCHANGED <<orders, mounted, storage, queued, pc, trigger, alert, timers>>
    /\ UNCHANGED viewVars

\* The filter with === for !==.
RemoveKeepMatching(list, id) ==
    LET keep == {i \in 1..Len(list) : list[i].id = id}
        F[i \in 0..Len(list)] ==
            IF i = 0 THEN <<>>
            ELSE IF i \in keep THEN Append(F[i - 1], list[i]) ELSE F[i - 1]
    IN  F[Len(list)]

\* Line 134
RemoveById(list, id) ==
    LET keep == {i \in 1..Len(list) : list[i].id # id}
        F[i \in 0..Len(list)] ==
            IF i = 0 THEN <<>>
            ELSE IF i \in keep THEN Append(F[i - 1], list[i]) ELSE F[i - 1]
    IN  F[Len(list)]

\* The delete handler without its setAlert.
DeleteAlertMissing == alert

\* Line 135
DeleteAlert == [type |-> "success", message |-> "Order deleted successfully!"]

\* Lines 132-138 (an order card's delete button, line 288); confirmed is the
\* answer of window.confirm.
handleDeleteOrder(id, confirmed) ==
    /\ pc = "idle"
    /\ ~showModal
    /\ IF confirmed
       THEN /\ timers < MaxTimers
            /\ orders' = RemoveById(orders, id)
            /\ alert' = DeleteAlert
            /\ timers' = timers + 1
            /\ pc' = AfterSetOrders
            /\ trigger' = "remove"
       ELSE UNCHANGED <<orders, alert, timers, pc, trigger>>
    /\ UNCHANGED <<mounted, storage, queued, newOrder, editingOrder, showModal>>
    /\ UNCHANGED viewVars

\* The toggle that only ever completes.
ToggleAlwaysCompleted(order) == [order EXCEPT !.status = "completed"]

\* Line 143
Toggled(order) ==
    [order EXCEPT !.status = IF order.status = "pending" THEN "completed"
                             ELSE "pending"]

\* Lines 141-145
ToggleById(list, id) ==
    [i \in 1..Len(list) |-> IF list[i].id = id THEN Toggled(list[i]) ELSE list[i]]

\* Lines 140-146 (an order card's status button, line 262)
toggleStatus(id) ==
    /\ pc = "idle"
    /\ ~showModal
    /\ orders' = ToggleById(orders, id)
    /\ pc' = AfterSetOrders
    /\ trigger' = "toggle"
    /\ UNCHANGED <<mounted, storage, queued, newOrder, editingOrder, showModal,
                   alert, timers>>
    /\ UNCHANGED viewVars

\* Lines 112, 115, 136: a pending timeout fires and clears the alert.
AlertTimeout ==
    /\ pc = "idle"
    /\ timers > 0
    /\ timers' = timers - 1
    /\ alert' = NoAlert
    /\ UNCHANGED <<orders, mounted, storage, queued, pc, trigger, newOrder,
                   editingOrder, showModal>>
    /\ UNCHANGED viewVars

\* Lines 235-240: the New Order button.
OpenNewOrder ==
    /\ pc = "idle"
    /\ ~showModal
    /\ editingOrder' = <<>>
    /\ newOrder' = initialNewOrder
    /\ showModal' = TRUE
    /\ UNCHANGED <<orders, mounted, storage, queued, pc, trigger, alert, timers>>
    /\ UNCHANGED viewVars

\* Lines 376-380: the form's Cancel button.
CancelModal ==
    /\ pc = "idle"
    /\ showModal
    /\ showModal' = FALSE
    /\ editingOrder' = <<>>
    /\ newOrder' = initialNewOrder
    /\ UNCHANGED <<orders, mounted, storage, queued, pc, trigger, alert, timers>>
    /\ UNCHANGED viewVars

\* Lines 327, 336, 353: the form's customer, amount and status inputs.
SetCustomer(c) ==
    /\ pc = "idle"
    /\ showModal
    /\ newOrder' = [newOrder EXCEPT !.customer = c]
    /\ UNCHANGED <<orders, mounted, storage, queued, pc, trigger, editingOrder,
                   showModal, alert, timers>>
    /\ UNCHANGED viewVars

SetAmount(a) ==
    /\ pc = "idle"
    /\ showModal
    /\ newOrder' = [newOrder EXCEPT !.amount = a]
    /\ UNCHANGED <<orders, mounted, storage, queued, pc, trigger, editingOrder,
                   showModal, alert, timers>>
    /\ UNCHANGED viewVars

SetStatus(st) ==
    /\ pc = "idle"
    /\ showModal
    /\ newOrder' = [newOrder EXCEPT !.status = st]
    /\ UNCHANGED <<orders, mounted, storage, queued, pc, trigger, editingOrder,
                   showModal, alert, timers>>
    /\ UNCHANGED viewVars

\* The form's notes and date inputs (lines 344, 365) are left as the form
\* was opened: the draft keeps the order's notes and date, or the defaults.

\* Lines 162, 252, 314: the order cards whose buttons can be clicked: the
\* rendered view, once mounted and while the modal does not cover it.
Cards == IF pc = "idle" /\ mounted /\ ~showModal THEN filteredOrders ELSE <<>>

Next ==
    \/ LoadEffect
    \/ PersistEffect
    \/ Render
    \/ handleAddOrder
    \/ \E i \in 1..Len(Cards) : handleEditOrder(Cards[i])
    \/ \E i \in 1..Len(Cards), confirmed \in BOOLEAN :
          handleDeleteOrder(Cards[i].id, confirmed)
    \/ \E i \in 1..Len(Cards) : toggleStatus(Cards[i].id)
    \/ AlertTimeout
    \/ OpenNewOrder
    \/ CancelModal
    \/ \E c \in CustomerInputs : SetCustomer(c)
    \/ \E a \in AmountInputs : SetAmount(a)
    \/ \E st \in StatusInputs : SetStatus(st)

Spec == Init /\ [][Next]_vars

\* Effects are flushed after the render that scheduled them, and a timeout
\* set with setTimeout fires however often other events are handled first.
LiveSpec ==
    /\ Spec
    /\ WF_vars(LoadEffect \/ PersistEffect \/ Render)
    /\ SF_vars(AlertTimeout)

-----------------------------------------------------------------------------
(* The view on its own: a mounted component whose list is one of ViewLists *)
(* and whose view parameters the user changes.                             *)

Order(id, customer, amount, status, date) ==
    [id |-> id, customer |-> customer, amount |-> amount, status |-> status,
     date |-> date, notes |-> <<>>]

\* Lists the handlers can build: ids distinct and increasing; amounts with
\* and without ties; both statuses; valid and cleared dates.
ViewLists ==
    { <<>>,
      INITIAL_ORDERS,
      <<INITIAL_ORDERS[1], INITIAL_ORDERS[2],
        Order(3, Globex, 500, "pending", Earlier)>>,
      <<Order(1, AcmeCorp, 500, "completed", Earlier),
        Order(2, TechStart, 500, "pending", Today),
        Order(3, Globex, 500, "completed", Today)>>,
      <<Order(1, Globex, 2300, "pending", Today),
        Order(2, AcmeCorp, 500, "completed", Earlier),
        Order(3, TechStart, 2300, "completed", <<>>),
        Order(4, Globex, 15, "pending", Earlier)>>,
      <<Order(2, TechStart, 15, "pending", Today),
        Order(3, Globex, 1500, "pending", Earlier),
        Order(4, AcmeCorp, 500, "pending", Today)>> }

SearchTerms ==
    { <<>>, <<"a">>, <<"A">>, <<"5">>, <<"1", "5">>, <<"7", "0", "0">>,
      <<"T", "E", "C", "H">> }

ViewInit ==
    /\ orders \in ViewLists
    /\ mounted = TRUE
    /\ storage = Stored(stringify(orders))
    /\ queued = <<>>
    /\ pc = "idle"
    /\ trigger = "none"
    /\ newOrder = initialNewOrder
    /\ editingOrder = <<>>
    /\ showModal = FALSE
    /\ alert = NoAlert
    /\ timers = 0
    /\ ViewDefaults

\* Line 204
SetSearchTerm(term) ==
    /\ searchTerm' = term
    /\ UNCHANGED <<statusFilter, sortBy, sortDirection>>
    /\ UNCHANGED storeVars

\* Line 212
SetStatusFilter(filter) ==
    /\ statusFilter' = filter
    /\ UNCHANGED <<searchTerm, sortBy, sortDirection>>
    /\ UNCHANGED storeVars

\* Lines 222-226
SetSort(key, direction) ==
    /\ sortBy' = key
    /\ sortDirection' = direction
    /\ UNCHANGED <<searchTerm, statusFilter>>
    /\ UNCHANGED storeVars

ViewNext ==
    \/ \E term \in SearchTerms : SetSearchTerm(term)
    \/ \E filter \in {"all", "pending", "completed"} : SetStatusFilter(filter)
    \/ \E key \in {"date", "amount"}, direction \in {"asc", "desc"} :
          SetSort(key, direction)

ViewSpec == ViewInit /\ [][ViewNext]_vars

-----------------------------------------------------------------------------
(* Properties *)

Range(seq) == {seq[i] : i \in 1..Len(seq)}

Reverse(seq) == [i \in 1..Len(seq) |-> seq[Len(seq) + 1 - i]]

\* The position of the order with this id in a list of distinct ids.
PosOf(list, id) == CHOOSE i \in 1..Len(list) : list[i].id = id

\* The indices of list, in increasing order, whose order has another id.
KeptIndices(list, id) == {i \in 1..Len(list) : list[i].id # id}

NthOf(S, k) == CHOOSE i \in S : Cardinality({j \in S : j < i}) = k - 1

\* C1: no two orders of the list have the same id.
C1_UniqueIds ==
    \A i, j \in 1..Len(orders) : i # j => orders[i].id # orders[j].id

\* An order was just added to a list that had lost an earlier order.
C1_Witness ==
    /\ trigger = "add"
    /\ Len(orders) = 2
    /\ orders[1].id = 2 /\ orders[2].id = 3

\* C2: handleAddOrder with an empty customer or an empty amount leaves the
\* order list (and the stored snapshot) as it was and raises an error alert,
\* whether or not an order is being edited.
C2_InvalidDraftRejected ==
    [][(handleAddOrder /\ (newOrder.customer = <<>> \/ newOrder.amount = <<>>))
          => /\ orders' = orders
             /\ storage' = storage
             /\ pc' = "idle"
             /\ alert'.type = "error"]_vars

\* An update with an emptied amount was just rejected.
C2_Witness ==
    /\ alert.type = "error"
    /\ editingOrder # <<>>
    /\ newOrder.customer # <<>> /\ newOrder.amount = <<>>
    /\ Len(orders) = 2

\* C3: once a mutation's effects are flushed (the component is idle again),
\* the stored snapshot is the serialization of the current list; no user
\* action is handled before that write.
C3_SnapshotMatchesList ==
    pc = "idle" => (mounted /\ storage = Stored(stringify(orders)))

\* An added order has been saved.
C3_Witness ==
    /\ pc = "idle"
    /\ alert.message = "New order added successfully!"
    /\ Len(orders) = 3
    /\ storage = Stored(stringify(orders))

\* C4: nothing is written before the loaded list is adopted (mounted is still
\* false); the first write carries the loaded list, and so leaves a parseable
\* snapshot as it was.
C4_NoWriteDuringLoad ==
    [][/\ ~mounted => storage' = storage
       /\ (PersistEffect /\ trigger = "mount" /\ mounted)
             => /\ storage' = Stored(stringify(LoadedOrders(storage)))
                /\ (storage.present /\ Parseable(storage.text)) => storage' = storage
      ]_vars

\* The persist effect of the first render has run over a stored list.
C4_Witness ==
    /\ pc = "render"
    /\ ~mounted
    /\ storage = Stored(stringify(<<INITIAL_ORDERS[2]>>))

\* The list the mount has adopted, or is about to.
Adopted == IF queued # <<>> THEN queued[1].orders ELSE orders

\* C5: after the load effect, the adopted list is the stored snapshot when one
\* is present and parseable (an empty list included), and INITIAL_ORDERS when
\* it is absent, empty or unparseable; no alert is set.
C5_LoadAdoptsSnapshotOrDefaults ==
    (trigger = "mount" /\ pc # "loadEffect") =>
        /\ \A l \in StoredLists : storage = Stored(stringify(l)) => Adopted = l
        /\ (storage \in {Absent, Stored(<<>>)} \cup {Stored(t) : t \in CorruptTexts})
              => Adopted = INITIAL_ORDERS
        /\ alert = NoAlert

\* A stored empty list has been adopted.
C5_Witness ==
    /\ trigger = "mount"
    /\ mounted
    /\ storage = Stored(stringify(<<>>))
    /\ orders = <<>>

\* Ids no order of the list has.
UnusedIds == (1..(MaxId + 1)) \ Range(Ids(orders))

\* C6: a rejected confirmation changes neither list, snapshot nor alert; an
\* accepted one leaves exactly the orders with another id, unchanged and in
\* their previous order; filtering out an id no order has gives the list
\* as it is.
C6_RemoveFrame ==
    [][/\ \A id \in 1..MaxId :
             /\ handleDeleteOrder(id, FALSE)
                   => (orders' = orders /\ storage' = storage /\ alert' = alert)
             /\ handleDeleteOrder(id, TRUE)
                   => /\ Len(orders') = Cardinality(KeptIndices(orders, id))
                      /\ \A k \in 1..Len(orders') :
                            orders'[k] = orders[NthOf(KeptIndices(orders, id), k)]
       /\ \A id \in UnusedIds : RemoveById(orders, id) = orders
      ]_vars

\* Order 1 of the default list was just removed.
C6_Witness ==
    /\ trigger = "remove"
    /\ alert = DeleteAlert
    /\ orders = <<INITIAL_ORDERS[2]>>

\* C7 as stated: every mutation, toggleStatus included, is followed by the
\* persist effect and has raised a success alert with its timeout.
C7_EveryMutationNotifies ==
    trigger \in {"add", "update", "remove", "toggle"}
        => (pc = "persistEffect" /\ alert.type = "success" /\ timers > 0)

\* C7, amended: add, update and confirmed remove are followed by the persist
\* effect and raise a success alert with its timeout; toggleStatus is followed
\* by the persist effect and leaves the alert alone; the persist effect
\* writes the list, and every alert is dismissed in the end.
C7_MutationsPersistAndNotify ==
    /\ [][/\ trigger' \in {"add", "update", "remove"}
                => (pc' = "persistEffect" /\ alert'.type = "success" /\ timers' > 0)
          /\ trigger' = "toggle" => pc' = "persistEffect"
          /\ (\E id \in 1..MaxId : toggleStatus(id))
                => (alert' = alert /\ timers' = timers)
          /\ (PersistEffect /\ trigger # "mount")
                => storage' = Stored(stringify(orders))]_vars
    /\ (alert # NoAlert ~> alert = NoAlert)

\* An update was just applied and its alert raised.
C7_Witness ==
    /\ trigger = "update"
    /\ alert.message = "Order updated successfully!"
    /\ timers > 0
    /\ pc = "persistEffect"

\* C8: toggling an id again right after toggleStatus(id) gives back the list
\* as it was before (the first toggle changed that order's status and nothing
\* else); toggling an id no order has gives the list as it is.
C8_ToggleInvolution ==
    [][/\ \A id \in 1..MaxId :
             toggleStatus(id)
                => /\ ToggleById(orders', id) = orders
                   /\ Len(orders') = Len(orders)
                   /\ \A i \in 1..Len(orders) :
                         /\ orders[i].id # id => orders'[i] = orders[i]
                         /\ orders[i].id = id
                               => /\ orders'[i].status # orders[i].status
                                  /\ [orders'[i] EXCEPT !.status = orders[i].status]
                                        = orders[i]
       /\ \A id \in UnusedIds : ToggleById(orders, id) = orders
      ]_vars

\* Order 1 of the default list was just toggled to completed.
C8_Witness ==
    /\ trigger = "toggle"
    /\ orders = <<[INITIAL_ORDERS[1] EXCEPT !.status = "completed"],
                  INITIAL_ORDERS[2]>>

\* C9: the view holds each order of the list once if it matches the search
\* and, unless the filter is 'all', has the filter's status, and no other
\* order.
C9_ViewIsFilteredList ==
    /\ \A i \in 1..Len(orders) :
          orders[i] \in Range(filteredOrders)
             <=> /\ MatchesSearch(orders[i], searchTerm)
                 /\ statusFilter = "completed" => orders[i].status = "completed"
                 /\ statusFilter = "pending" => orders[i].status = "pending"
    /\ Range(filteredOrders) \subseteq Range(orders)
    /\ Cardinality(Range(filteredOrders)) = Len(filteredOrders)

\* A search matches orders of both statuses and the filter keeps some.
C9_Witness ==
    /\ statusFilter = "completed"
    /\ searchTerm # <<>>
    /\ Len(filteredOrders) >= 1
    /\ \E i \in 1..Len(orders) :
          MatchesSearch(orders[i], searchTerm) /\ orders[i].status = "pending"
    /\ \E i \in 1..Len(orders) : ~MatchesSearch(orders[i], searchTerm)

DistinctAmounts(list) ==
    \A i, j \in 1..Len(list) : i # j => list[i].amount # list[j].amount

\* Orders of equal amount keep the relative order they have in list.
StableIn(sorted, list) ==
    \A i, j \in 1..Len(sorted) :
        (i < j /\ sorted[i].amount = sorted[j].amount)
            => PosOf(list, sorted[i].id) < PosOf(list, sorted[j].id)

\* C10: of the filtered orders, the view by amount ascending is a
\* rearrangement in non-decreasing amount, the view by amount descending is
\* its reverse when the amounts are pairwise distinct, and both keep orders
\* of equal amount in their original relative order.
C10_AmountSort ==
    LET f == Filter(orders, searchTerm, statusFilter)
        asc == Sort(f, "amount", "asc")
        desc == Sort(f, "amount", "desc")
    IN  /\ Len(asc) = Len(f) /\ Range(asc) = Range(f)
        /\ Len(desc) = Len(f) /\ Range(desc) = Range(f)
        /\ \A i \in 1..(Len(asc) - 1) : asc[i].amount <= asc[i + 1].amount
        /\ \A i \in 1..(Len(desc) - 1) : desc[i].amount >= desc[i + 1].amount
        /\ DistinctAmounts(f) => desc = Reverse(asc)
        /\ StableIn(asc, f) /\ StableIn(desc, f)
        /\ sortBy = "amount"
              => filteredOrders = IF sortDirection = "asc" THEN asc ELSE desc

\* Three orders of distinct amounts, not in amount order, shown highest first.
C10_Witness ==
    /\ sortBy = "amount" /\ sortDirection = "desc"
    /\ Len(filteredOrders) = 3
    /\ DistinctAmounts(filteredOrders)
    /\ filteredOrders[1].id = 3

====
